---- MODULE Spec2Model ----
(***************************************************************************)
(* Model of sailing_club.py: the pure function solve_sailing_club (interval *)
(* merge + sweep-line peak count) and the batch handler                     *)
(* submit_sailing_solutions that applies it to every test case in order.    *)
(*                                                                          *)
(* A booking is a Python List[int], modelled as a sequence of integers; a   *)
(* well-shaped booking has exactly two elements <<start, end>>.             *)
(***************************************************************************)
EXTENDS Integers, Sequences, FiniteSets, TLC

\* ------------------------------------------------------------------ bounds
MaxTime  == 3      \* timestamps of enumerated bookings are 0..MaxTime
MaxLen   == 3      \* enumerated booking lists have at most MaxLen bookings
MaxCases == 3      \* enumerated multi-case batches have at most MaxCases cases

\* --------------------------------------------------------------- utilities
Max(a, b) == IF a >= b THEN a ELSE b
Min(a, b) == IF a <= b THEN a ELSE b

SeqsUpTo(S, n) == UNION {[1..k -> S] : k \in 0..n}

\* ----------------------------------------------------- solve_sailing_club
\* sort key of line 36: lambda x: x[0]
BookingKeyLeq(x, y) == x[1] <= y[1]

\* sorted() is stable: an element is inserted after every element whose key
\* is less than or equal to its own.
RECURSIVE InsertBooking(_, _)
InsertBooking(x, s) ==
    IF s = <<>> THEN <<x>>
    ELSE IF BookingKeyLeq(s[Len(s)], x) THEN Append(s, x)
    ELSE Append(InsertBooking(x, SubSeq(s, 1, Len(s) - 1)), s[Len(s)])

SortedBookingsMut(bookings) == bookings

RECURSIVE SortedBookings(_)
SortedBookings(bookings) ==
    IF bookings = <<>> THEN <<>>
    ELSE InsertBooking(bookings[Len(bookings)],
                       SortedBookings(SubSeq(bookings, 1, Len(bookings) - 1)))

\* line 43: if next_start <= current_end
OverlapsMut(next_start, current_end) == next_start < current_end
Overlaps(next_start, current_end) == next_start <= current_end

\* line 45: current_end = max(current_end, next_end)
ExtendEndMut(current_end, next_end) == next_end
ExtendEnd(current_end, next_end) == Max(current_end, next_end)

\* line 53: merged_slots.append([current_start, current_end]) after the loop
FinishMergeMut(merged_slots, current_start, current_end) == merged_slots
FinishMerge(merged_slots, current_start, current_end) ==
    Append(merged_slots, <<current_start, current_end>>)

\* lines 42-53: the loop over sorted_bookings[1:], k is the position of the
\* next booking in sorted_bookings
RECURSIVE MergeLoop(_, _, _, _, _)
MergeLoop(sorted_bookings, k, current_start, current_end, merged_slots) ==
    IF k > Len(sorted_bookings)
    THEN FinishMerge(merged_slots, current_start, current_end)
    ELSE LET next_start == sorted_bookings[k][1]
             next_end   == sorted_bookings[k][2]
         IN  IF Overlaps(next_start, current_end)
             THEN MergeLoop(sorted_bookings, k + 1, current_start,
                            ExtendEnd(current_end, next_end), merged_slots)
             ELSE MergeLoop(sorted_bookings, k + 1, next_start, next_end,
                            Append(merged_slots, <<current_start, current_end>>))

\* lines 36-53: Part 1
MergeSlots(bookings) ==
    LET sorted_bookings == SortedBookings(bookings)
    IN  IF sorted_bookings = <<>> THEN <<>>
        ELSE MergeLoop(sorted_bookings, 2, sorted_bookings[1][1],
                       sorted_bookings[1][2], <<>>)

\* lines 57-60: two events per booking, in booking order
RECURSIVE Events(_)
Events(bookings) ==
    IF bookings = <<>> THEN <<>>
    ELSE LET n == Len(bookings)
         IN  Events(SubSeq(bookings, 1, n - 1))
               \o << <<bookings[n][1], 1>>, <<bookings[n][2], -1>> >>

\* sort key of line 66: lambda x: (x[0], -x[1]), compared as Python tuples
EventKeyLeqMut(x, y) ==
    \/ x[1] < y[1]
    \/ x[1] = y[1] /\ x[2] <= y[2]
EventKeyLeq(x, y) ==
    \/ x[1] < y[1]
    \/ x[1] = y[1] /\ (0 - x[2]) <= (0 - y[2])

RECURSIVE InsertEvent(_, _)
InsertEvent(x, s) ==
    IF s = <<>> THEN <<x>>
    ELSE IF EventKeyLeq(s[Len(s)], x) THEN Append(s, x)
    ELSE Append(InsertEvent(x, SubSeq(s, 1, Len(s) - 1)), s[Len(s)])

\* line 66: events.sort(...), stable
RECURSIVE SortEvents(_)
SortEvents(events) ==
    IF events = <<>> THEN <<>>
    ELSE InsertEvent(events[Len(events)],
                     SortEvents(SubSeq(events, 1, Len(events) - 1)))

\* line 74: min_boats_needed = max(min_boats_needed, current_boats)
UpdatePeakMut(min_boats_needed, current_boats) ==
    Min(min_boats_needed, current_boats)
UpdatePeak(min_boats_needed, current_boats) ==
    Max(min_boats_needed, current_boats)

\* line 73: current_boats += event_type
AddEventMut(current_boats, event_type) ==
    IF event_type = 1 THEN current_boats + 1 ELSE current_boats
AddEvent(current_boats, event_type) == current_boats + event_type

\* lines 68-74: the sweep, k is the position of the next event
RECURSIVE SweepLoop(_, _, _, _)
SweepLoop(events, k, current_boats, min_boats_needed) ==
    IF k > Len(events) THEN min_boats_needed
    ELSE LET c == AddEvent(current_boats, events[k][2])
         IN  SweepLoop(events, k + 1, c, UpdatePeak(min_boats_needed, c))

\* lines 55-74: Part 2
MinBoats(bookings) == SweepLoop(SortEvents(Events(bookings)), 1, 0, 0)

\* lines 24-76: the pair (merged_slots, min_boats_needed)
solve_sailing_club(bookings) ==
    IF bookings = <<>> THEN << <<>>, 0 >>
    ELSE << MergeSlots(bookings), MinBoats(bookings) >>

\* solve_sailing_club raises when a booking of a non-empty list is not a
\* pair: x[0] of line 36 on an empty booking, the unpackings of lines 40, 42
\* (and 58) on a booking of another length.
Raises(bookings) ==
    /\ bookings # <<>>
    /\ \E i \in 1..Len(bookings) : Len(bookings[i]) # 2

\* the sort of line 36 evaluates every key before any unpacking
ExceptionOf(bookings) ==
    IF \E i \in 1..Len(bookings) : Len(bookings[i]) = 0
    THEN "IndexError" ELSE "ValueError"

\* ------------------------------------------------------------ input domain
Times == 0..MaxTime

\* every pair of timestamps, start > end included
Pairs == {<<s, e>> : s \in Times, e \in Times}

\* the examples of the documentation (section 8 of the specification)
ExampleInputs ==
    { << <<3, 5>> >>,
      << <<1, 3>>, <<5, 7>> >>,
      << <<1, 5>>, <<4, 8>>, <<7, 10>> >>,
      << <<1, 8>>, <<8, 10>> >>,
      << <<6, 10>>, <<10, 15>> >> }

SingleInputs == SeqsUpTo(Pairs, MaxLen) \cup ExampleInputs

\* inputs of the multi-case batches: well-shaped ones and ones on which
\* solve_sailing_club raises
BatchInputs ==
    { <<>>,
      << <<0, 1>> >>,
      << <<1, 2>>, <<0, 1>> >>,
      << <<2, 0>> >>,
      << <<0, 3>>, <<1, 2>> >>,
      << <<1>> >>,
      << <<0, 1>>, <<0, 1, 2>> >>,
      << <<0, 1>>, <<>> >> }

Ids == {"a", "b"}

\* TestCase (lines 9-11)
TestCase(id, input) == [id |-> id, input |-> input]

SingleBatches == {<<TestCase("a", b)>> : b \in SingleInputs}
MultiBatches  == SeqsUpTo({TestCase(i, b) : i \in Ids, b \in BatchInputs}, MaxCases)

\* ------------------------------------------------- submit_sailing_solutions
VARIABLES
    testCases,   \* request_body.testCases
    idx,         \* position of the loop of line 86 (1-based)
    solutions,   \* the local list of line 84
    pc,          \* "loop" | "done" | "error"
    response     \* what the caller receives

vars == <<testCases, idx, solutions, pc, response>>

\* Solution (lines 13-16) built at lines 87-92
Solution(test_case) ==
    LET r == solve_sailing_club(test_case.input)
    IN  [id |-> test_case.id, sortedMergedSlots |-> r[1], minBoatsNeeded |-> r[2]]

\* line 88: solutions.append(...)
AppendSolutionMut(sols, test_case) == <<Solution(test_case)>> \o sols
AppendSolution(sols, test_case) == Append(sols, Solution(test_case))

Pending == [kind |-> "pending", status_code |-> 0, solutions |-> <<>>, detail |-> ""]

Init ==
    /\ testCases \in SingleBatches \cup MultiBatches
    /\ idx = 1
    /\ solutions = <<>>
    /\ pc = "loop"
    /\ response = Pending

\* lines 86-92: one iteration of the loop, solve_sailing_club returns
ProcessCase ==
    /\ pc = "loop"
    /\ idx <= Len(testCases)
    /\ ~Raises(testCases[idx].input)
    /\ solutions' = AppendSolution(solutions, testCases[idx])
    /\ idx' = idx + 1
    /\ UNCHANGED <<testCases, pc, response>>

\* line 94: return ResponseBody(solutions=solutions)
ReturnResponse ==
    /\ pc = "loop"
    /\ idx > Len(testCases)
    /\ response' = [kind |-> "ok", status_code |-> 200,
                    solutions |-> solutions, detail |-> ""]
    /\ pc' = "done"
    /\ UNCHANGED <<testCases, idx, solutions>>

\* a per-case isolation of the failure, which the handler does not do
CaseRaisesMut ==
    /\ pc = "loop"
    /\ idx <= Len(testCases)
    /\ Raises(testCases[idx].input)
    /\ idx' = idx + 1
    /\ UNCHANGED <<testCases, solutions, pc, response>>

\* lines 87, 96-99: solve_sailing_club raises inside the try, the handler
\* raises HTTPException(500) and the local list is dropped
CaseRaises ==
    /\ pc = "loop"
    /\ idx <= Len(testCases)
    /\ Raises(testCases[idx].input)
    /\ response' = [kind |-> "error", status_code |-> 500, solutions |-> <<>>,
                    detail |-> ExceptionOf(testCases[idx].input)]
    /\ pc' = "error"
    /\ UNCHANGED <<testCases, idx, solutions>>

Next == ProcessCase \/ ReturnResponse \/ CaseRaises

Spec == Init /\ [][Next]_vars

\* ------------------------------------------------------------ properties
IsPairs(b) == \A j \in 1..Len(b) : Len(b[j]) = 2
StartLeqEnd(b) == IsPairs(b) /\ \A j \in 1..Len(b) : b[j][1] <= b[j][2]

\* the test cases whose solution is in the response
Answered == 1..Len(response.solutions)
InputOf(i) == testCases[i].input
MergedOf(i) == response.solutions[i].sortedMergedSlots
BoatsOf(i) == response.solutions[i].minBoatsNeeded

SetMax(S) == CHOOSE m \in S : \A x \in S : x <= m
SetMin(S) == CHOOSE m \in S : \A x \in S : m <= x

\* Instants at half-integer resolution: t2 stands for the instant t2/2. With
\* integer endpoints every real instant is covered by the same bookings as
\* one of these.
HalfInstants(b) ==
    IF b = <<>> THEN {}
    ELSE LET E == {b[j][1] : j \in 1..Len(b)} \cup {b[j][2] : j \in 1..Len(b)}
         IN  (2 * SetMin(E) - 1)..(2 * SetMax(E) + 1)
CoverAt(b, t2) ==
    Cardinality({j \in 1..Len(b) : 2 * b[j][1] <= t2 /\ t2 <= 2 * b[j][2]})
MaxCover(b) == SetMax({0} \cup {CoverAt(b, t2) : t2 \in HalfInstants(b)})

\* integer points covered by a list of closed intervals
Covered(b) == UNION {b[j][1]..b[j][2] : j \in 1..Len(b)}

Touching(b) ==
    \E j, k \in 1..Len(b) : j # k /\ b[j][2] = b[k][1] /\ b[k][1] < b[k][2]
                            /\ b[j][1] < b[j][2]

\* C1: for bookings with start <= end, minBoatsNeeded is the maximum over all
\* instants of the number of bookings whose closed interval holds the instant
\* (0 for no bookings).
C1_PeakIsMaxCover ==
    \A i \in Answered :
        StartLeqEnd(InputOf(i)) => BoatsOf(i) = MaxCover(InputOf(i))

C1_Witness ==
    /\ response.kind = "ok"
    /\ \E i \in Answered :
          /\ StartLeqEnd(InputOf(i))
          /\ Touching(InputOf(i))
          /\ BoatsOf(i) = MaxCover(InputOf(i))
          /\ BoatsOf(i) = 2
    /\ \E i \in Answered : InputOf(i) = <<>> /\ BoatsOf(i) = 0

\* C2: for bookings with start <= end, the merged list is strictly increasing
\* in start, each merged interval ends strictly before the next one starts,
\* and every merged interval has start <= end.
C2_MergedDisjointSorted ==
    \A i \in Answered :
        StartLeqEnd(InputOf(i)) =>
            LET m == MergedOf(i)
            IN  /\ \A k \in 1..Len(m) : m[k][1] <= m[k][2]
                /\ \A k \in 1..(Len(m) - 1) :
                      m[k][2] < m[k + 1][1] /\ m[k][1] < m[k + 1][1]

C2_Witness ==
    /\ response.kind = "ok"
    /\ \E i \in Answered :
          /\ StartLeqEnd(InputOf(i))
          /\ Len(InputOf(i)) = 3
          /\ Len(MergedOf(i)) = 2
          /\ MergedOf(i)[1][2] < MergedOf(i)[2][1]

\* C3: for bookings with start <= end, the merged output covers exactly the
\* integer points the input covers.
C3_CoveragePreserved ==
    \A i \in Answered :
        StartLeqEnd(InputOf(i)) => Covered(MergedOf(i)) = Covered(InputOf(i))

C3_Witness ==
    /\ response.kind = "ok"
    /\ \E i \in Answered :
          /\ StartLeqEnd(InputOf(i))
          /\ Len(InputOf(i)) >= 2
          /\ Len(MergedOf(i)) < Len(InputOf(i))
          /\ \E j \in 1..Len(InputOf(i)) : InputOf(i)[j][2] < MergedOf(i)[1][2]
                                           /\ InputOf(i)[j][1] > MergedOf(i)[1][1]
          /\ Covered(MergedOf(i)) = Covered(InputOf(i))
    /\ \E i \in Answered : InputOf(i) = <<>> /\ MergedOf(i) = <<>>

\* C4: two touching bookings [a,b],[b,c] with a <= b <= c are merged into the
\* single interval [a,c] and counted as 2 concurrent boats; [[1,8],[8,10]]
\* gives ([[1,10]], 2).
C4_TouchingMergedAndCounted ==
    \A i \in Answered :
        LET b == InputOf(i)
        IN  (/\ StartLeqEnd(b)
             /\ Len(b) = 2
             /\ b[1][2] = b[2][1])
            => /\ MergedOf(i) = << <<b[1][1], b[2][2]>> >>
               /\ BoatsOf(i) = 2

C4_Witness ==
    /\ response.kind = "ok"
    /\ \E i \in Answered :
          /\ InputOf(i) = << <<1, 8>>, <<8, 10>> >>
          /\ MergedOf(i) = << <<1, 10>> >>
          /\ BoatsOf(i) = 2

Chain == << <<1, 5>>, <<4, 8>>, <<7, 10>> >>

\* C5 as stated: the chain [[1,5],[4,8],[7,10]] gives ([[1,10]], 3).
C5_ChainGivesThree ==
    \A i \in Answered :
        InputOf(i) = Chain => MergedOf(i) = << <<1, 10>> >> /\ BoatsOf(i) = 3

\* C5 (amended): the chain [[1,5],[4,8],[7,10]] gives merged [[1,10]] and
\* minBoatsNeeded = 2: no instant is covered by all three bookings.
C5_ChainGivesTwo ==
    \A i \in Answered :
        InputOf(i) = Chain => MergedOf(i) = << <<1, 10>> >> /\ BoatsOf(i) = 2

C5_Witness ==
    /\ response.kind = "ok"
    /\ \E i \in Answered : InputOf(i) = Chain /\ MaxCover(Chain) = BoatsOf(i)

\* C6: merging the merged output again returns it unchanged, for every list of
\* integer pairs (start > end included).
C6_MergeIdempotent ==
    \A i \in Answered :
        solve_sailing_club(MergedOf(i))[1] = MergedOf(i)

C6_Witness ==
    /\ response.kind = "ok"
    /\ \E i \in Answered :
          /\ ~StartLeqEnd(InputOf(i))
          /\ Len(MergedOf(i)) >= 2
          /\ \E k \in 1..Len(MergedOf(i)) : MergedOf(i)[k][1] > MergedOf(i)[k][2]
          /\ solve_sailing_club(MergedOf(i))[1] = MergedOf(i)

Permuted(b, p) == [k \in 1..Len(b) |-> b[p[k]]]

\* C7: for bookings with start <= end, every permutation of the input gives
\* the same merged list and the same minBoatsNeeded.
C7_OrderIndependent ==
    \A i \in Answered :
        StartLeqEnd(InputOf(i)) =>
            \A p \in Permutations(1..Len(InputOf(i))) :
                solve_sailing_club(Permuted(InputOf(i), p))
                    = <<MergedOf(i), BoatsOf(i)>>

C7_Witness ==
    /\ response.kind = "ok"
    /\ \E i \in Answered :
          LET b == InputOf(i)
          IN  /\ StartLeqEnd(b)
              /\ Len(b) = 3
              /\ b[1][1] > b[3][1]
              /\ b[2][1] = b[3][1] /\ b[2][2] > b[3][2]
              /\ Len(MergedOf(i)) = 2

\* C8: a successful response holds one solution per test case, the i-th one
\* with the i-th test case's id and the result of that test case's input.
C8_BatchOrderPreserved ==
    response.kind = "ok" =>
        /\ Len(response.solutions) = Len(testCases)
        /\ \A i \in 1..Len(testCases) :
              /\ response.solutions[i].id = testCases[i].id
              /\ <<MergedOf(i), BoatsOf(i)>> = solve_sailing_club(InputOf(i))

C8_Witness ==
    /\ response.kind = "ok"
    /\ Len(testCases) = 3
    /\ testCases[1].id # testCases[2].id
    /\ InputOf(1) # InputOf(2)
    /\ InputOf(2) # InputOf(3)
    /\ Len(response.solutions) = 3

\* running counter of the sweep after its first k events
RECURSIVE CounterAfter(_, _)
CounterAfter(events, k) ==
    IF k = 0 THEN 0 ELSE CounterAfter(events, k - 1) + events[k][2]

\* C9: a list of integer pairs (start > end included) never makes
\* solve_sailing_club raise, and 0 <= minBoatsNeeded <= number of bookings.
C9_MalformedProcessed ==
    /\ pc = "error" => ~IsPairs(testCases[idx].input)
    /\ \A i \in 1..Len(solutions) :
          /\ 0 <= solutions[i].minBoatsNeeded
          /\ solutions[i].minBoatsNeeded <= Len(InputOf(i))

C9_Witness ==
    /\ response.kind = "ok"
    /\ \E i \in Answered :
          LET ev == SortEvents(Events(InputOf(i)))
          IN  /\ \E j \in 1..Len(InputOf(i)) : InputOf(i)[j][1] > InputOf(i)[j][2]
              /\ \E k \in 1..Len(ev) : CounterAfter(ev, k) < 0
              /\ BoatsOf(i) >= 0

FirstRaising == SetMin({i \in 1..Len(testCases) : Raises(InputOf(i))})

\* C10: when solve_sailing_club raises for a test case, the handler answers
\* with a single error of status 500 and no solutions, and the loop never
\* goes past the first failing case.
C10_FailureFailsBatch ==
    (\E i \in 1..Len(testCases) : Raises(testCases[i].input)) =>
        /\ idx <= FirstRaising
        /\ Len(solutions) = idx - 1
        /\ pc # "done"
        /\ response.kind # "ok"
        /\ pc = "error" =>
              /\ idx = FirstRaising
              /\ response.kind = "error"
              /\ response.status_code = 500
              /\ response.solutions = <<>>

C10_Witness ==
    /\ pc = "error"
    /\ idx = 2
    /\ Len(testCases) = 3
    /\ Len(solutions) = 1
    /\ ~Raises(testCases[3].input)
    /\ response.status_code = 500
    /\ response.solutions = <<>>

====
